---- MODULE Spec2Model ----
(***************************************************************************)
(* Model of the income-forecasting pipeline of Arthya (src/ml):            *)
(*   - models/inference.py : train_prophet, retrain_prophet, infer_prophet,*)
(*                           time_series_split, fit_prophet                *)
(*   - pipelines/training.py : TrainingPipeline.train_model,               *)
(*                           retrain_model, batch_train_models             *)
(*   - main.py : the Flask /train endpoint and its process-wide globals    *)
(*                                                                         *)
(* Spec      : request threads running train_model / retrain_model /       *)
(*             infer_prophet / the HTTP train endpoint concurrently over   *)
(*             the artifact directory and the globals of main.py.          *)
(* SpecBatch : one thread running batch_train_models.                      *)
(* SpecSplit : the chronological splits and the metrics of the HTTP train  *)
(*             path, applied to bounded row sequences and fractions.       *)
(* SpecStd   : standardization of an income column, its inverse, the      *)
(*             statistics read back for it, and the training R2.           *)
(* SpecPayload : one POST /train request on a list of records.             *)
(* SpecCols  : the regressor columns at fit and at predict.                *)
(* SpecRun   : one training run: partitions, encoder, fit, and what        *)
(*             follows the fit.                                            *)
(* SpecWarm  : warm_start_params and fit_prophet's optimizer initializer.  *)
(***************************************************************************)
EXTENDS Integers, Sequences, FiniteSets, TLC

VARIABLES
    fs,          \* the artifact directory: path -> file
    pc,          \* per thread: where it is in its call
    op,          \* per thread: the entry point it is running
    usr,         \* per thread: userId argument
    dat,         \* per thread: the dataset (csv / payload) argument
    err,         \* per thread: the exception that ended the call
    mdl,         \* per thread: the local Prophet object (m / _prophet_model)
    path,        \* per thread: the artifact path it last opened
    g_model,     \* main.py: _prophet_model
    g_mu_sigma,  \* main.py: _mu_sigma
    batch,       \* batch_train_models: user_data, position, results, status
    sp,          \* the split machine: input rows, fraction, results
    st           \* the run machine: one training run on concrete inputs

vars == <<fs, pc, op, usr, dat, err, mdl, path, g_model, g_mu_sigma, batch,
          sp, st>>

-----------------------------------------------------------------------------
(* The users and the request threads *)

Users == {1, 2}

Procs == {"t1", "t2"}

-----------------------------------------------------------------------------
(* Datasets.  A csv / payload is abstracted to what the code branches on.  *)
(*   "good"        numeric covariates, >= 2 rows, all columns present      *)
(*   "categorical" like good, with an object-dtype covariate column        *)
(*   "short"       fewer than 2 rows in the training partition             *)
(*   "no_income"   no Income_Total column                                  *)
(*   "no_ds_y"     no ds or no y column (csv), or a required column        *)
(*                 missing (HTTP payload)                                  *)

Datasets == {"good", "categorical", "short", "no_income", "no_ds_y"}

\* A Prophet object: the rows it was fitted on (whose they are, and the
\* dataset) and how the optimizer was seeded.
NoModel == [fitted |-> FALSE, data |-> <<0, "none">>, init |-> "none"]

Fitted(u, d, i) == [fitted |-> TRUE, data |-> <<u, d>>, init |-> i]

\* A file of the artifact directory.
Absent == [exists |-> FALSE, text |-> <<>>]

File(t) == [exists |-> TRUE, text |-> t]

NoPath == <<"none", 0>>

\* training.py:106,121 and inference.py:242: f'../models/artifacts/modelUser_{userId}.json'
TrainPath(u) == <<"../models/artifacts/modelUser_", u, ".json">>

\* inference.py:100: f"../models/artifacts/model_user_{userId}.json"
RetrainPath(u) == <<"../models/artifacts/model_user_", u, ".json">>

Paths == {TrainPath(u) : u \in Users} \cup {RetrainPath(u) : u \in Users}

\* prophet.serialize.model_to_json: the fitted parameters as a JSON text
\* (a str).
model_to_json(m) == <<"{", m.data, m.init, "}">>

\* prophet.serialize.model_from_json: parses the text; json.loads raises
\* JSONDecodeError (a ValueError) on an empty or cut text.
model_from_json(t) ==
    IF Len(t) = 4 /\ t[1] = "{" /\ t[4] = "}"
    THEN [ok |-> TRUE, m |-> [fitted |-> TRUE, data |-> t[2], init |-> t[3]],
          err |-> "none"]
    ELSE [ok |-> FALSE, m |-> NoModel, err |-> "JSONDecodeError"]

\* An artifact of user u written by an earlier deployment.
PriorFile(u) == File(model_to_json(Fitted(u, "prior", "default")))

\* A file that is present and loadable.
IsArtifact(f) == f.exists /\ model_from_json(f.text).ok

-----------------------------------------------------------------------------
(* What the library and file calls of the pipeline do *)

\* inference.py:35-43 load_dataset: ValueError unless 'ds' and 'y' exist.
load_dataset(d) ==
    IF d = "no_ds_y" THEN "ValueError" ELSE "none"

\* inference.py:214-215, 105-106, main.py:105-106: the Income_Total check.
IncomeCheck(d) ==
    IF d = "no_income" THEN "ValueError" ELSE "none"

\* inference.py:54-70 fit_prophet / main.py:147 m.fit: Prophet.fit raises
\* ValueError on a history of fewer than 2 non-NaN rows.
fit_prophet(d) ==
    IF d = "short" THEN "ValueError" ELSE "none"

\* inference.py:134 prophet_model.predict(train_df[['ds'] + feat_names]):
\* the raw (unencoded) frame is handed to predict, whose pd.to_numeric
\* raises ValueError on an object-dtype regressor column.
PredictRaw(d) ==
    IF d = "categorical" THEN "ValueError" ELSE "none"

\* A load that opens a missing file as an empty one.
OpenReadCreating(fsys, f) ==
    IF ~fsys[f].exists
    THEN model_from_json(<<>>)
    ELSE model_from_json(fsys[f].text)

\* open(path, "r") followed by model_from_json(f.read())
\* (inference.py:87-88 and 100-101).
OpenRead(fsys, f) ==
    IF ~fsys[f].exists
    THEN [ok |-> FALSE, m |-> NoModel, err |-> "FileNotFoundError"]
    ELSE model_from_json(fsys[f].text)

\* open(path, 'wb') (inference.py:242): creates the file or truncates it.
OpenWriteBinary(fsys, f) == [fsys EXCEPT ![f] = File(<<>>)]

\* The type of the value model_to_json returns: json.dumps gives a str.
JsonType == "str"

\* f.write(payload) on a file opened 'wb' (inference.py:243): a binary file
\* takes bytes; a str raises TypeError and nothing is written.
WriteBinary(file, type, text) ==
    IF type = "bytes"
    THEN [err |-> "none", file |-> File(file.text \o text)]
    ELSE [err |-> "TypeError", file |-> file]

-----------------------------------------------------------------------------
(* Thread bookkeeping *)

Goto(p, l) == pc' = [pc EXCEPT ![p] = l]

Raise(p, e) ==
    /\ pc' = [pc EXCEPT ![p] = "failed"]
    /\ err' = [err EXCEPT ![p] = e]

Begin(p, o, u, d) ==
    /\ op' = [op EXCEPT ![p] = o]
    /\ usr' = [usr EXCEPT ![p] = u]
    /\ dat' = [dat EXCEPT ![p] = d]

Enter(p, o, u, d) ==
    /\ pc[p] = "idle"
    /\ Begin(p, o, u, d)

\* The fit+persist section of a call: from the start of the fit to the end
\* of the write.
InFlight(p) == pc[p] \in {"fitting", "fitted", "opened"}

-----------------------------------------------------------------------------
(* TrainingPipeline.train_model, training.py:44-163 *)

\* training.py:67-88: load_dataset, time_series_split, get_feature_pipeline.
train_model_begin(p, u, d) ==
    /\ Begin(p, "train", u, d)
    /\ IF load_dataset(d) = "none"
       THEN Goto(p, "loaded") /\ UNCHANGED err
       ELSE Raise(p, load_dataset(d))
    /\ UNCHANGED <<fs, mdl, path, g_model, g_mu_sigma, sp, st>>

train_model_call(p, u, d) ==
    /\ pc[p] = "idle"
    /\ train_model_begin(p, u, d)
    /\ UNCHANGED batch

\* inference.py:212-238: sort, Income_Total check, standardize, split,
\* encode; the thread is then inside fit_prophet.
train_prophet_enter(p) ==
    /\ op[p] = "train" /\ pc[p] = "loaded"
    /\ IF IncomeCheck(dat[p]) = "none"
       THEN Goto(p, "fitting") /\ UNCHANGED err
       ELSE Raise(p, IncomeCheck(dat[p]))
    /\ UNCHANGED <<fs, op, usr, dat, mdl, path, g_model, g_mu_sigma,
                   batch, sp, st>>

\* inference.py:240: _prophet_model = fit_prophet(train_df, reg_train_df, feat_names)
train_prophet_fit(p) ==
    /\ op[p] = "train" /\ pc[p] = "fitting"
    /\ IF fit_prophet(dat[p]) = "none"
       THEN /\ Goto(p, "fitted")
            /\ mdl' = [mdl EXCEPT ![p] = Fitted(usr[p], dat[p], "default")]
            /\ UNCHANGED err
       ELSE Raise(p, fit_prophet(dat[p])) /\ UNCHANGED mdl
    /\ UNCHANGED <<fs, op, usr, dat, path, g_model, g_mu_sigma,
                   batch, sp, st>>

\* inference.py:242: with open(f'../models/artifacts/modelUser_{userId}.json', 'wb') as f
train_prophet_open(p) ==
    /\ op[p] = "train" /\ pc[p] = "fitted"
    /\ fs' = OpenWriteBinary(fs, TrainPath(usr[p]))
    /\ path' = [path EXCEPT ![p] = TrainPath(usr[p])]
    /\ Goto(p, "opened")
    /\ UNCHANGED <<op, usr, dat, err, mdl, g_model, g_mu_sigma,
                   batch, sp, st>>

\* training.py:99-103: feature_pipe.transform(test_df[feat_names]) on the
\* pipeline get_feature_pipeline returned at training.py:86.  That pipeline
\* is never fitted (train_prophet builds and fits one of its own,
\* inference.py:230-233), and an unfitted ColumnTransformer raises
\* NotFittedError.
TransformTest == "NotFittedError"

\* inference.py:243: f.write(model_to_json(_prophet_model)), then the
\* with-block closes the file and train_prophet returns; train_model goes
\* on to evaluate on the test partition (training.py:97-158).  Any
\* exception reaches train_model's except clause (training.py:160-163),
\* which logs and re-raises.
train_prophet_write(p) ==
    /\ op[p] = "train" /\ pc[p] = "opened"
    /\ LET w == WriteBinary(fs[path[p]], JsonType, model_to_json(mdl[p]))
       IN  /\ fs' = [fs EXCEPT ![path[p]] = w.file]
           /\ IF w.err # "none"
              THEN Raise(p, w.err)
              ELSE IF TransformTest # "none"
              THEN Raise(p, TransformTest)
              ELSE Goto(p, "done") /\ UNCHANGED err
    /\ UNCHANGED <<op, usr, dat, mdl, path, g_model, g_mu_sigma,
                   batch, sp, st>>

-----------------------------------------------------------------------------
(* TrainingPipeline.retrain_model, training.py:165-202 *)

\* training.py:177-186: load_dataset.
retrain_model_call(p, u, d) ==
    /\ Enter(p, "retrain", u, d)
    /\ IF load_dataset(d) = "none"
       THEN Goto(p, "loaded") /\ UNCHANGED err
       ELSE Raise(p, load_dataset(d))
    /\ UNCHANGED <<fs, mdl, path, g_model, g_mu_sigma, batch, sp, st>>

\* inference.py:99-129: open and parse the prior artifact, sort, the
\* Income_Total check, standardize, split, encode; the thread is then
\* inside fit_prophet with the prior model as prev_Model.
retrain_prophet_load(p) ==
    /\ op[p] = "retrain" /\ pc[p] = "loaded"
    /\ path' = [path EXCEPT ![p] = RetrainPath(usr[p])]
    /\ LET r == OpenRead(fs, RetrainPath(usr[p]))
       IN  IF ~r.ok
           THEN Raise(p, r.err) /\ UNCHANGED mdl
           ELSE IF IncomeCheck(dat[p]) # "none"
           THEN Raise(p, IncomeCheck(dat[p])) /\ UNCHANGED mdl
           ELSE /\ Goto(p, "fitting")
                /\ mdl' = [mdl EXCEPT ![p] = r.m]
                /\ UNCHANGED err
    /\ UNCHANGED <<fs, op, usr, dat, g_model, g_mu_sigma,
                   batch, sp, st>>

\* inference.py:132-143: the warm-started fit, predict on the training
\* frame, the metrics, return.  Nothing is written to the artifact
\* directory.
retrain_prophet_fit(p) ==
    /\ op[p] = "retrain" /\ pc[p] = "fitting"
    /\ IF fit_prophet(dat[p]) # "none"
       THEN Raise(p, fit_prophet(dat[p])) /\ UNCHANGED mdl
       ELSE /\ mdl' = [mdl EXCEPT ![p] = Fitted(usr[p], dat[p], "warm")]
            /\ IF PredictRaw(dat[p]) # "none"
               THEN Raise(p, PredictRaw(dat[p]))
               ELSE Goto(p, "done") /\ UNCHANGED err
    /\ UNCHANGED <<fs, op, usr, dat, path, g_model, g_mu_sigma,
                   batch, sp, st>>

-----------------------------------------------------------------------------
(* infer_prophet, inference.py:85-96, called with the path train_model    *)
(* passes it (training.py:105-110)                                        *)

infer_prophet(p, u) ==
    /\ Enter(p, "infer", u, "good")
    /\ path' = [path EXCEPT ![p] = TrainPath(u)]
    /\ LET r == OpenRead(fs, TrainPath(u))
       IN  IF r.ok
           THEN /\ Goto(p, "done")
                /\ mdl' = [mdl EXCEPT ![p] = r.m]
                /\ UNCHANGED err
           ELSE Raise(p, r.err) /\ UNCHANGED mdl
    /\ UNCHANGED <<fs, g_model, g_mu_sigma, batch, sp, st>>

-----------------------------------------------------------------------------
(* main.py: train_endpoint (198-231) and _train_prophet (100-195).  The   *)
(* request carries no user identifier; usr is the user it is sent for.    *)

\* main.py:60-69 _json_to_features: ValueError when a required column is
\* missing.  It sets Income_Total itself (main.py:81).
json_to_features(d) ==
    IF d = "no_ds_y" THEN "ValueError" ELSE "none"

\* main.py:200-207: parse the payload, _json_to_features.  Any exception
\* is answered with status 500 (main.py:230-231).
train_endpoint_call(p, u, d) ==
    /\ Enter(p, "http_train", u, d)
    /\ d # "no_income"
    /\ IF json_to_features(d) = "none"
       THEN Goto(p, "loaded") /\ UNCHANGED err
       ELSE Raise(p, json_to_features(d))
    /\ UNCHANGED <<fs, mdl, path, g_model, g_mu_sigma, batch, sp, st>>

\* main.py:103-129: sort, mu and sigma into the global _mu_sigma, split,
\* encode.
main_train_prophet_enter(p) ==
    /\ op[p] = "http_train" /\ pc[p] = "loaded"
    /\ g_mu_sigma' = [set |-> TRUE, data |-> <<usr[p], dat[p]>>]
    /\ Goto(p, "fitting")
    /\ UNCHANGED <<fs, op, usr, dat, err, mdl, path, g_model,
                   batch, sp, st>>

\* main.py:131-195: m.fit, _prophet_model = m, the metrics, return.
main_train_prophet_fit(p) ==
    /\ op[p] = "http_train" /\ pc[p] = "fitting"
    /\ IF fit_prophet(dat[p]) # "none"
       THEN /\ Raise(p, fit_prophet(dat[p]))
            /\ UNCHANGED <<mdl, g_model>>
       ELSE /\ mdl' = [mdl EXCEPT ![p] = Fitted(usr[p], dat[p], "default")]
            /\ g_model' = Fitted(usr[p], dat[p], "default")
            /\ Goto(p, "done") /\ UNCHANGED err
    /\ UNCHANGED <<fs, op, usr, dat, path, g_mu_sigma, batch, sp, st>>

-----------------------------------------------------------------------------
(* TrainingPipeline.batch_train_models, training.py:204-222 *)

BatchProc == "t1"

\* The mappings handed to batch_train_models: a dict, so the users are
\* distinct, iterated in insertion order.
UserData ==
    {<<>>}
    \cup {<<e>> : e \in Users \X Datasets}
    \cup {<<e1, e2>> : e1, e2 \in Users \X Datasets}

DistinctUsers(ud) ==
    \A i, j \in 1..Len(ud) : i # j => ud[i][1] # ud[j][1]

\* training.py:215: results = {}
batch_train_models_call(p, ud) ==
    /\ pc[p] = "idle"
    /\ DistinctUsers(ud)
    /\ Goto(p, "batch")
    /\ op' = [op EXCEPT ![p] = "batch"]
    /\ batch' = [status |-> "running", user_data |-> ud, next |-> 1,
                 results |-> {}]
    /\ UNCHANGED <<fs, usr, dat, err, mdl, path, g_model, g_mu_sigma, sp, st>>

\* training.py:216-222: the loop takes the next (user_id, csv_path) and
\* calls self.train_model; after the last one it returns results.
batch_next(p) ==
    /\ pc[p] = "batch" /\ batch.status = "running"
    /\ IF batch.next > Len(batch.user_data)
       THEN /\ batch' = [batch EXCEPT !.status = "returned"]
            /\ Goto(p, "done")
            /\ UNCHANGED <<fs, op, usr, dat, err, mdl, path, g_model,
                           g_mu_sigma, sp, st>>
       ELSE /\ train_model_begin(p, batch.user_data[batch.next][1],
                                 batch.user_data[batch.next][2])
            /\ UNCHANGED batch

\* training.py:220: results[user_id] = self.train_model(...).  A value
\* returned is stored and the loop goes on; an exception raised by
\* train_model is not caught here and leaves batch_train_models.
batch_after_train(p) ==
    /\ batch.status = "running" /\ op[p] = "train"
    /\ pc[p] \in {"done", "failed"}
    /\ IF pc[p] = "done"
       THEN /\ batch' = [batch EXCEPT !.results = @ \cup {<<usr[p], "run_info">>},
                                      !.next = @ + 1]
            /\ Goto(p, "batch")
       ELSE /\ batch' = [batch EXCEPT !.status = "raised"]
            /\ UNCHANGED pc
    /\ op' = [op EXCEPT ![p] = "batch"]
    /\ UNCHANGED <<fs, usr, dat, err, mdl, path, g_model, g_mu_sigma, sp, st>>

-----------------------------------------------------------------------------
\* The call returns, or its exception reaches the caller.
Return(p) ==
    /\ pc[p] \in {"done", "failed"}
    /\ batch.status # "running"
    /\ pc' = [pc EXCEPT ![p] = "idle"]
    /\ op' = [op EXCEPT ![p] = "none"]
    /\ usr' = [usr EXCEPT ![p] = 0]
    /\ dat' = [dat EXCEPT ![p] = "none"]
    /\ err' = [err EXCEPT ![p] = "none"]
    /\ mdl' = [mdl EXCEPT ![p] = NoModel]
    /\ path' = [path EXCEPT ![p] = NoPath]
    /\ UNCHANGED <<fs, g_model, g_mu_sigma, batch, sp, st>>

-----------------------------------------------------------------------------
-----------------------------------------------------------------------------
(* The chronological splits, on row sequences.  A frame is a sequence of   *)
(* row ids; row i of the input has date dates[i].                          *)

MaxRows == 4

MaxDate == 2

\* Fractions are multiples of 1/FracDen.
FracDen == 10

Max(a, b) == IF a >= b THEN a ELSE b

Min(a, b) == IF a <= b THEN a ELSE b

\* int(x) of a float x = num/den: truncation toward zero.
PyInt(num, den) ==
    IF num >= 0 THEN num \div den ELSE -((-num) \div den)

\* The values int(n * f) can take for the float f nearest to k/FracDen.
\* The float product is exact when f is (f in {0, 1/2, 1}); otherwise it is
\* off by less than one part in 10^15, which changes the truncation only
\* when n*k/FracDen is a whole number and the product falls just below it.
FloatInt(n, k) ==
    IF (2 * k) % FracDen = 0 \/ (n * k) % FracDen # 0 \/ n * k <= 0
    THEN {PyInt(n * k, FracDen)}
    ELSE {PyInt(n * k, FracDen), PyInt(n * k, FracDen) - 1}

\* The position a Python slice bound k denotes in a sequence of length n.
SliceBound(n, k) == IF k < 0 THEN Max(0, n + k) ELSE Min(k, n)

\* df.iloc[:k]
IlocTo(df, k) == SubSeq(df, 1, SliceBound(Len(df), k))

IlocFromOffByOne(df, k) == SubSeq(df, SliceBound(Len(df), k) + 2, Len(df))

\* df.iloc[k:]
IlocFrom(df, k) == SubSeq(df, SliceBound(Len(df), k) + 1, Len(df))

\* df.sort_values('ds').reset_index(drop=True) (inference.py:40, 212,
\* main.py:103): the rows in non-decreasing date order.  The default sort
\* kind is not stable, so rows of equal date come in any order.
SortValues(dates) ==
    {s \in [1..Len(dates) -> 1..Len(dates)] :
        /\ \A i, j \in 1..Len(dates) : i # j => s[i] # s[j]
        /\ \A i \in 1..(Len(dates) - 1) : dates[s[i]] <= dates[s[i + 1]]}

\* inference.py:46-51 time_series_split, with i the value of
\* int(n * (1 - test_size)).
time_series_split(df, i) ==
    [train |-> IlocTo(df, i), val |-> IlocFrom(df, i), has_val |-> TRUE]

\* inference.py:225-227, 116-118 and main.py:116-118, with i the value of
\* int(len(feats) * train_frac): split_idx = max(1, i), train_df, and val_df
\* (None unless split_idx < len(feats)).
FracSplit(df, i) ==
    LET split_idx == Max(1, i)
    IN  [train |-> IlocTo(df, split_idx),
         val |-> IF split_idx < Len(df) THEN IlocFrom(df, split_idx) ELSE <<>>,
         has_val |-> split_idx < Len(df)]

-----------------------------------------------------------------------------
(* main.py: the metrics of _train_prophet and the answer of /train *)

NoMetrics == [k \in {} |-> "0"]

TrainMetricKeys == {"accuracy", "train_mae", "train_rmse", "train_r2"}

ValMetricKeys == {"val_mae", "val_rmse", "val_r2"}

\* main.py:131-195, after the split: fit, the training metrics, and the
\* validation branch.  The branch reads safe_regressors (main.py:177),
\* which main.py:145 deleted: it raises UnboundLocalError.
main_train_prophet(split) ==
    IF Len(split.train) < 2
    THEN [err |-> "ValueError", metrics |-> NoMetrics]
    ELSE IF split.has_val /\ Len(split.val) > 0
    THEN [err |-> "UnboundLocalError", metrics |-> NoMetrics]
    ELSE [err |-> "none", metrics |-> [k \in TrainMetricKeys |-> "computed"]]

\* metrics.get(k, 0)
MetricsGet(metrics, k) == IF k \in DOMAIN metrics THEN metrics[k] ELSE "0"

NoValidation == [null |-> TRUE, mae |-> "none", rmse |-> "none", r2 |-> "none"]

ValidationAlways(metrics) ==
    [null |-> FALSE, mae |-> MetricsGet(metrics, "val_mae"),
     rmse |-> MetricsGet(metrics, "val_rmse"),
     r2 |-> MetricsGet(metrics, "val_r2")]

\* main.py:223-227: the "validation" member of the answer.
Validation(metrics) ==
    IF "val_mae" \in DOMAIN metrics
    THEN [null |-> FALSE, mae |-> MetricsGet(metrics, "val_mae"),
          rmse |-> MetricsGet(metrics, "val_rmse"),
          r2 |-> MetricsGet(metrics, "val_r2")]
    ELSE NoValidation

\* main.py:207-231: _train_prophet(feats, train_frac=1) and the answer.
\* len(feats) * 1 is an int product.
train_endpoint(df) ==
    LET r == main_train_prophet(FracSplit(df, Len(df)))
    IN  IF r.err # "none"
        THEN [status |-> 500, rows |-> 0, train |-> "none",
              validation |-> NoValidation]
        ELSE [status |-> 200, rows |-> Len(df),
              train |-> MetricsGet(r.metrics, "train_mae"),
              validation |-> Validation(r.metrics)]

-----------------------------------------------------------------------------
(* The split machine: a frame and a fraction are drawn, the frame is       *)
(* sorted, and one of the splitting functions is applied.                  *)

NoResult == [err |-> "none", metrics |-> NoMetrics]

NoAnswer == [status |-> 0, rows |-> 0, train |-> "none",
             validation |-> NoValidation]

InitSplit ==
    \E n \in 0..MaxRows : \E ds \in [1..n -> 1..MaxDate] : \E f \in 0..FracDen :
        sp = [stage |-> "input", dates |-> ds, fnum |-> f, df |-> <<>>,
              split |-> [train |-> <<>>, val |-> <<>>, has_val |-> FALSE],
              result |-> NoResult, answer |-> NoAnswer]

\* load_dataset (inference.py:40) or the sort that opens train_prophet,
\* retrain_prophet and _train_prophet.
sort_values ==
    /\ sp.stage = "input"
    /\ \E s \in SortValues(sp.dates) :
           sp' = [sp EXCEPT !.stage = "sorted", !.df = s]
    /\ UNCHANGED <<fs, pc, op, usr, dat, err, mdl, path, g_model,
                   g_mu_sigma, batch, st>>

\* training.py:81: time_series_split(feats, test_size=test_size)
apply_time_series_split ==
    /\ sp.stage = "sorted"
    /\ \E i \in FloatInt(Len(sp.df), FracDen - sp.fnum) :
           sp' = [sp EXCEPT !.stage = "time_series_split",
                            !.split = time_series_split(sp.df, i)]
    /\ UNCHANGED <<fs, pc, op, usr, dat, err, mdl, path, g_model,
                   g_mu_sigma, batch, st>>

\* inference.py:225-227 (train_prophet) and 116-118 (retrain_prophet)
apply_train_prophet_split ==
    /\ sp.stage = "sorted"
    /\ \E i \in FloatInt(Len(sp.df), sp.fnum) :
           sp' = [sp EXCEPT !.stage = "train_prophet",
                            !.split = FracSplit(sp.df, i)]
    /\ UNCHANGED <<fs, pc, op, usr, dat, err, mdl, path, g_model,
                   g_mu_sigma, batch, st>>

\* main.py:100-195: _train_prophet(feats, train_frac)
apply_main_train_prophet ==
    /\ sp.stage = "sorted"
    /\ \E i \in FloatInt(Len(sp.df), sp.fnum) :
           sp' = [sp EXCEPT !.stage = "main_train_prophet",
                            !.split = FracSplit(sp.df, i),
                            !.result = main_train_prophet(FracSplit(sp.df, i))]
    /\ UNCHANGED <<fs, pc, op, usr, dat, err, mdl, path, g_model,
                   g_mu_sigma, batch, st>>

\* main.py:198-231: train_endpoint, which always passes train_frac=1
apply_train_endpoint ==
    /\ sp.stage = "sorted"
    /\ sp' = [sp EXCEPT !.stage = "train_endpoint",
                        !.fnum = FracDen,
                        !.split = FracSplit(sp.df, Len(sp.df)),
                        !.result = main_train_prophet(FracSplit(sp.df, Len(sp.df))),
                        !.answer = train_endpoint(sp.df)]
    /\ UNCHANGED <<fs, pc, op, usr, dat, err, mdl, path, g_model,
                   g_mu_sigma, batch, st>>

NextSplit ==
    \/ sort_values
    \/ apply_time_series_split
    \/ apply_train_prophet_split
    \/ apply_main_train_prophet
    \/ apply_train_endpoint

-----------------------------------------------------------------------------
(* Standardization of the income column.  Incomes are whole amounts; a     *)
(* mean is kept as the exact fraction num/den and a standard deviation as  *)
(* the variance num/den under its square root.                             *)

MaxIncomeRows == 3

Incomes == {800, 1000, 1003, 1005, 1200}

\* round(., -1) rounds to a multiple of ten (inference.py:173).
Tens == 10

RECURSIVE SumSeq(_)
SumSeq(x) == IF x = <<>> THEN 0 ELSE Head(x) + SumSeq(Tail(x))

RECURSIVE SumSq(_)
SumSq(x) == IF x = <<>> THEN 0 ELSE Head(x) * Head(x) + SumSq(Tail(x))

\* Series.mean()
Mean(x) == [num |-> SumSeq(x), den |-> Len(x)]

NaNSigma == [nan |-> TRUE, num |-> 0, den |-> 1]

One == [nan |-> FALSE, num |-> 1, den |-> 1]

\* Series.std(ddof): NaN when there are no more than ddof rows.
Std(x, ddof) ==
    IF Len(x) - ddof <= 0
    THEN NaNSigma
    ELSE [nan |-> FALSE,
          num |-> Len(x) * SumSq(x) - SumSeq(x) * SumSeq(x),
          den |-> Len(x) * (Len(x) - ddof)]

IsZero(sigma) == ~sigma.nan /\ sigma.num = 0

SameSigma(a, b) == a.nan = b.nan /\ a.num * b.den = b.num * a.den

SamePair(a, b) ==
    /\ a.mu.num * b.mu.den = b.mu.num * a.mu.den
    /\ SameSigma(a.sigma, b.sigma)

\* float(s) or 1.0 (inference.py:110, 219, main.py:110): only an exact
\* zero is falsy; NaN is kept.
OrOne(sigma) == IF IsZero(sigma) THEN One ELSE sigma

NaN == [kind |-> "nan", num |-> 0, den |-> 1, sigma |-> One]

Inf == [kind |-> "inf", num |-> 0, den |-> 1, sigma |-> One]

\* A division by sigma that leaves out the centring on mu.
StandardizeUncentred(x, mu, sigma) ==
    IF sigma.nan \/ IsZero(sigma)
    THEN NaN
    ELSE [kind |-> "num", num |-> x * mu.den, den |-> mu.den,
          sigma |-> sigma]

\* (x - mu) / sigma on floats: the value (num/den)/sigma.  A zero sigma
\* does not raise: 0/0 is NaN and anything else over 0 is infinite.
Standardize(x, mu, sigma) ==
    IF sigma.nan
    THEN NaN
    ELSE IF IsZero(sigma)
    THEN IF x * mu.den = mu.num THEN NaN ELSE Inf
    ELSE [kind |-> "num", num |-> x * mu.den - mu.num, den |-> mu.den,
          sigma |-> sigma]

StandardizeAll(x, mu, sigma) ==
    [i \in 1..Len(x) |-> Standardize(x[i], mu, sigma)]

IsFinite(y) == y.kind = "num"

NotANumber == [nan |-> TRUE, val |-> 0]

Number(v) == [nan |-> FALSE, val |-> v]

\* round(p/q, -1) for q > 0, where p/q stands for a float within rounding
\* error of it: the nearest multiple of ten, and either neighbour when
\* p/q is half way between two.
RoundTens(p, q) ==
    LET lower == (p \div (q * Tens)) * Tens
        rest  == p - lower * q
    IN  IF 2 * rest < Tens * q THEN {Number(lower)}
        ELSE IF 2 * rest > Tens * q THEN {Number(lower + Tens)}
        ELSE {Number(lower), Number(lower + Tens)}

\* inference.py:169-173 income_from_standardized, for a pred_y that was
\* divided by this sigma or is zero: y * sigma is then num/den.
income_from_standardized(y, mu, sigma) ==
    CASE ~IsFinite(y) \/ sigma.nan -> {NotANumber}
      [] IsFinite(y) /\ ~sigma.nan /\ (SameSigma(y.sigma, sigma) \/ y.num = 0) ->
            RoundTens(y.num * mu.den + mu.num * y.den, y.den * mu.den)

\* featureExtraction.py:20-22: mu, sigma and y of extract_features
extract_features(x) ==
    [mu |-> Mean(x), sigma |-> Std(x, 0),
     y |-> StandardizeAll(x, Mean(x), Std(x, 0))]

\* inference.py:217-220, 108-111 and main.py:108-111: _mu_sigma
MuSigma(x) == [mu |-> Mean(x), sigma |-> OrOne(Std(x, 0))]

\* inference.py:154-167 load_income_stats: Series.std() is the sample
\* standard deviation (ddof=1), without a floor.
load_income_stats(x) == [mu |-> Mean(x), sigma |-> Std(x, 1)]

\* r2_score(y_true, y_pred) of sklearn (main.py:157).  With a constant
\* y_true the total sum of squares is zero and the score is the number 1.0
\* for exact predictions and the number 0.0 otherwise.
r2_score(sst_zero, sse_zero) ==
    IF sst_zero
    THEN IF sse_zero THEN "1.0" ELSE "0.0"
    ELSE "1 - sse/sst"

-----------------------------------------------------------------------------
(* The standardization machine: an income column is drawn, y is computed   *)
(* by extract_features or by the training function, and the run goes on to *)
(* the fit and its R2, to the inverse, or to the stored statistics.        *)

NoPair == [mu |-> [num |-> 0, den |-> 1], sigma |-> NaNSigma]

StOnly ==
    UNCHANGED <<fs, pc, op, usr, dat, err, mdl, path, g_model, g_mu_sigma,
                batch, sp>>

InitStd ==
    \E n \in 1..MaxIncomeRows : \E x \in [1..n -> Incomes] :
    \E monthly \in BOOLEAN :
        st = [stage |-> "input", incomes |-> x, monthly |-> monthly,
              y_from |-> "none", y |-> <<>>, y_pair |-> NoPair,
              mu_sigma |-> NoPair, stats |-> NoPair, inv |-> <<>>,
              r2 |-> "none", err |-> "none"]

\* main.py:90 and featureExtraction.py:27: extract_features(df).  Line 17
\* reads the Monthly_Income and Monthly_Expenses columns.
apply_extract_features ==
    /\ st.stage = "input"
    /\ IF ~st.monthly
       THEN st' = [st EXCEPT !.stage = "failed", !.err = "KeyError"]
       ELSE LET e == extract_features(st.incomes)
            IN  st' = [st EXCEPT !.stage = "features",
                                 !.y_from = "extract_features",
                                 !.y = e.y,
                                 !.y_pair = [mu |-> e.mu, sigma |-> e.sigma]]
    /\ StOnly

\* inference.py:217-223 (train_prophet), 108-113 (retrain_prophet) and
\* main.py:108-114 (_train_prophet): _mu_sigma, and y only when the frame
\* has no y column yet.
apply_standardize ==
    /\ st.stage \in {"input", "features"}
    /\ LET ms == MuSigma(st.incomes)
       IN  IF st.y_from = "none"
           THEN st' = [st EXCEPT !.stage = "standardized",
                                 !.mu_sigma = ms,
                                 !.y_from = "train_prophet",
                                 !.y = StandardizeAll(st.incomes, ms.mu, ms.sigma),
                                 !.y_pair = ms]
           ELSE st' = [st EXCEPT !.stage = "standardized", !.mu_sigma = ms]
    /\ StOnly

ConstantTarget(y) == \A i, j \in 1..Len(y) : y[i] = y[j]

\* main.py:147-157: m.fit and the training R2.  Prophet drops the rows
\* whose y is NaN and raises ValueError when fewer than two remain; how
\* close its predictions come is the optimizer's business.
apply_fit_metrics ==
    /\ st.stage = "standardized"
    /\ IF Cardinality({i \in 1..Len(st.y) : IsFinite(st.y[i])}) < 2
       THEN st' = [st EXCEPT !.stage = "failed", !.err = "ValueError"]
       ELSE \E exact \in BOOLEAN :
                st' = [st EXCEPT !.stage = "metrics",
                                 !.r2 = r2_score(ConstantTarget(st.y), exact)]
    /\ StOnly

\* inference.py:169-173 applied to the run's own y with the run's _mu_sigma
apply_income_from_standardized ==
    /\ st.stage = "standardized"
    /\ st' = [st EXCEPT !.stage = "inverted",
                        !.inv = [i \in 1..Len(st.y) |->
                                    income_from_standardized(st.y[i],
                                        st.mu_sigma.mu, st.mu_sigma.sigma)]]
    /\ StOnly

\* inference.py:154-167: the statistics read back from the income csv
apply_load_income_stats ==
    /\ st.stage = "standardized"
    /\ st' = [st EXCEPT !.stage = "stats",
                        !.stats = load_income_stats(st.incomes)]
    /\ StOnly

NextStd ==
    \/ apply_extract_features
    \/ apply_standardize
    \/ apply_fit_metrics
    \/ apply_income_from_standardized
    \/ apply_load_income_stats

-----------------------------------------------------------------------------
(* The payload machine: a POST /train body is a list of records; a record  *)
(* is the set of the field names it carries.                               *)

MaxRecords == 2

\* main.py:61-64 required_cols
required_cols == {"Date", "Category", "Daily_Expenses", "Daily_Income"}

\* The columns extract_features reads that _json_to_features does not set
\* (featureExtraction.py:17).
MonthlyCols == {"Monthly_Income", "Monthly_Expenses"}

FieldNames == required_cols \cup MonthlyCols

\* pd.DataFrame(json_records).columns: a field that any record carries is
\* a column; the records without it hold NaN there.
Columns(records) == UNION {records[i] : i \in 1..Len(records)}

\* main.py:67 missing
Missing(records) == required_cols \ Columns(records)

HasNaN(records, c) ==
    c \in Columns(records) /\ \E i \in 1..Len(records) : c \notin records[i]

\* main.py:60-97 _json_to_features: the exception it ends with, and the
\* names the message lists.  A NaN Date fails in fill_gas_price
\* (main.py:29, strftime of NaT) and an absent monthly column in
\* extract_features (featureExtraction.py:17).
json_to_features_records(records) ==
    IF Missing(records) # {}
    THEN [err |-> "ValueError: Missing required columns",
          listed |-> Missing(records)]
    ELSE IF HasNaN(records, "Date")
    THEN [err |-> "ValueError: NaTType does not support strftime",
          listed |-> {}]
    ELSE IF ~(MonthlyCols \subseteq Columns(records))
    THEN [err |-> "KeyError", listed |-> {}]
    ELSE [err |-> "none", listed |-> {}]

\* main.py:121-147: the encoder fit and m.fit on the features of the
\* records.  fillna(0) (featureExtraction.py:19) puts the number 0 into a
\* Category column that has NaN, and OrdinalEncoder refuses a column of
\* mixed str and int; Prophet refuses fewer than two rows.
fit_records(records) ==
    IF HasNaN(records, "Category") THEN "TypeError"
    ELSE IF Len(records) < 2 THEN "ValueError"
    ELSE "none"

InitPayload ==
    \E n \in 0..MaxRecords : \E recs \in [1..n -> SUBSET FieldNames] :
        st = [stage |-> "request", records |-> recs, status |-> 0,
              err |-> "none", listed |-> {}]

PayloadOnly ==
    UNCHANGED <<fs, pc, op, usr, dat, err, mdl, path, batch, sp>>

Answer(status, e, listed) ==
    st' = [st EXCEPT !.stage = "answered", !.status = status, !.err = e,
                     !.listed = listed]

\* main.py:200-207: the empty body is answered 400; _json_to_features;
\* any exception is answered 500 with its message (main.py:230-231).
post_train_features ==
    /\ st.stage = "request"
    /\ LET r == json_to_features_records(st.records)
       IN  IF Len(st.records) = 0
           THEN Answer(400, "none", {})
           ELSE IF r.err # "none"
           THEN Answer(500, r.err, r.listed)
           ELSE st' = [st EXCEPT !.stage = "features"]
    /\ UNCHANGED <<g_model, g_mu_sigma>>
    /\ PayloadOnly

\* main.py:208 and 100-195: _train_prophet(feats, train_frac=1).  _mu_sigma
\* is assigned (main.py:111) before anything is fitted.
post_train_fit ==
    /\ st.stage = "features"
    /\ g_mu_sigma' = [set |-> TRUE, data |-> <<0, "payload">>]
    /\ IF fit_records(st.records) # "none"
       THEN /\ Answer(500, fit_records(st.records), {})
            /\ UNCHANGED g_model
       ELSE /\ g_model' = Fitted(0, "payload", "default")
            /\ Answer(200, "none", {})
    /\ PayloadOnly

NextPayload ==
    \/ post_train_features
    \/ post_train_fit

-----------------------------------------------------------------------------
(* The regressor columns.  A frame is the sequence of its column names     *)
(* after ds and y; a Prophet model is the sequence of the regressors       *)
(* added to it.                                                            *)

ColNames == {"Job_Categories", "Hours_Worked", "cap", "floor"}

\* The object-dtype columns (inference.py:74).
ObjectCols == {"Job_Categories"}

\* inference.py:56, 90 and main.py:132: the names kept out of the regressors
ReservedNames == {"ds", "y", "cap", "floor"}

NameSeqs ==
    {s \in UNION {[1..n -> ColNames] : n \in 0..Cardinality(ColNames)} :
        \A i, j \in 1..Len(s) : i # j => s[i] # s[j]}

NameSet(s) == {s[i] : i \in 1..Len(s)}

IsObject(c) == c \in ObjectCols

NotObject(c) == c \notin ObjectCols

NotDsY(c) == c \notin {"ds", "y"}

NotReserved(c) == c \notin ReservedNames

\* inference.py:72-83 get_feature_pipeline: feat_names = cat_cols + num_cols
get_feature_pipeline(columns) ==
    LET feat_cols == SelectSeq(columns, NotDsY)
    IN  SelectSeq(feat_cols, IsObject) \o SelectSeq(feat_cols, NotObject)

\* safe_feature_names (inference.py:56, 90) and safe_regressors (main.py:132)
safe_feature_names(feature_names) == SelectSeq(feature_names, NotReserved)

\* inference.py:55-58: Prophet() and add_regressor for each safe name
add_regressors(feature_names) ==
    [regressors |-> safe_feature_names(feature_names)]

\* Prophet.predict(frame): every regressor of the model must be a column
\* of the frame and convert to a number, else ValueError; the regressor
\* values are taken from the frame by name, other columns are ignored.
predict(m, regs, raw) ==
    IF \E r \in NameSet(m.regressors) : r \notin NameSet(regs)
    THEN [err |-> "ValueError", used |-> <<>>]
    ELSE IF raw /\ \E r \in NameSet(m.regressors) : IsObject(r)
    THEN [err |-> "ValueError", used |-> <<>>]
    ELSE [err |-> "none", used |-> m.regressors]

NoProphet == [regressors |-> <<>>]

InitCols ==
    \E cols \in NameSeqs :
        st = [stage |-> "input", columns |-> <<"ds", "y">> \o cols,
              m |-> NoProphet, call |-> "none", regs |-> <<>>,
              err |-> "none", used |-> <<>>]

Predicted(call, regs, r) ==
    st' = [st EXCEPT !.stage = "predicted", !.call = call, !.regs = regs,
                     !.err = r.err, !.used = r.used]

\* inference.py:230-240 (train_prophet), 121-132 (retrain_prophet) and
\* main.py:121-147 (_train_prophet): the model fit on the frame
fit_on_frame ==
    /\ st.stage = "input"
    /\ st' = [st EXCEPT !.stage = "fitted",
                        !.m = add_regressors(get_feature_pipeline(st.columns))]
    /\ StOnly

\* inference.py:85-96 infer_prophet, called with a regressor frame whose
\* columns are the names it is given
infer_prophet_names ==
    /\ st.stage = "fitted"
    /\ \E feature_names \in NameSeqs :
           Predicted("infer_prophet", safe_feature_names(feature_names),
                     predict(st.m, safe_feature_names(feature_names), FALSE))
    /\ StOnly

\* inference.py:134: prophet_model.predict(train_df[['ds'] + feat_names]),
\* the frame as loaded, not the encoded one
retrain_predict ==
    /\ st.stage = "fitted"
    /\ LET feat_names == get_feature_pipeline(st.columns)
       IN  Predicted("retrain_prophet", feat_names,
                     predict(st.m, feat_names, TRUE))
    /\ StOnly

\* main.py:137-151: m.predict(train_prophet_df), whose regressor columns
\* are safe_regressors of the encoded frame
main_train_predict ==
    /\ st.stage = "fitted"
    /\ LET safe_regressors ==
               safe_feature_names(get_feature_pipeline(st.columns))
       IN  Predicted("_train_prophet", safe_regressors,
                     predict(st.m, safe_regressors, FALSE))
    /\ StOnly

NextCols ==
    \/ fit_on_frame
    \/ infer_prophet_names
    \/ retrain_predict
    \/ main_train_predict

-----------------------------------------------------------------------------
(* The run machine: one training run on a date-sorted frame of at least    *)
(* one row.  Row i has date dates[i]; a partition is a sequence of rows.   *)

Entries == {"train_model", "retrain_prophet", "_train_prophet"}

\* The sorted frames: the dates in non-decreasing order.
SortedDates ==
    {ds \in UNION {[1..n -> 1..MaxDate] : n \in 1..MaxRows} :
        \A i \in 1..(Len(ds) - 1) : ds[i] <= ds[i + 1]}

Rows(ds) == [i \in 1..Len(ds) |-> i]

DistinctDates(ds, part) == {ds[part[i]] : i \in 1..Len(part)}

\* Prophet.fit(df): fewer than two rows raise ValueError before anything is
\* computed.  Otherwise a constant y may be fitted without the optimizer;
\* on a single date the time scale is zero and the optimizer, if it runs,
\* runs on NaN times and may fail or return.
ProphetFit(ds, part, const_y) ==
    IF Len(part) < 2
    THEN {[optimizer |-> FALSE, err |-> "ValueError"]}
    ELSE {[optimizer |-> TRUE, err |-> "none"]}
         \cup (IF const_y
               THEN {[optimizer |-> FALSE, err |-> "none"]} ELSE {})
         \cup (IF Cardinality(DistinctDates(ds, part)) < 2
               THEN {[optimizer |-> TRUE, err |-> "RuntimeError"]} ELSE {})

Event(o, pipe, rows) == [op |-> o, pipe |-> pipe, rows |-> rows]

\* Pipeline.transform: NotFittedError unless this pipeline was fitted.
Transform(log, pipe) ==
    IF \E k \in 1..Len(log) : log[k].op = "fit" /\ log[k].pipe = pipe
    THEN "none"
    ELSE "NotFittedError"

NoPartition == [train |-> <<>>, val |-> <<>>, has_val |-> FALSE]

InitRun ==
    \E e \in Entries : \E ds \in SortedDates : \E f \in 0..FracDen :
    \E t \in (IF e = "train_model" THEN 0..FracDen ELSE {0}) :
    \E c \in BOOLEAN :
        st = [stage |-> "sorted", entry |-> e, dates |-> ds, fnum |-> f,
              tnum |-> t, const_y |-> c, train_df |-> <<>>, test_df |-> <<>>,
              tp |-> NoPartition, log |-> <<>>, optimizer |-> FALSE,
              fitted |-> FALSE, artifact |-> "untouched", err |-> "none"]

\* training.py:81 (train_model only): time_series_split(feats, test_size);
\* then inference.py:225-227, 116-118, main.py:116-118 on the whole feats.
run_split ==
    /\ st.stage = "sorted"
    /\ \E i \in FloatInt(Len(st.dates), st.fnum) :
       \E k \in FloatInt(Len(st.dates), FracDen - st.tnum) :
           LET tp == FracSplit(Rows(st.dates), i)
               ts == time_series_split(Rows(st.dates), k)
           IN  st' = [st EXCEPT
                        !.stage = "split",
                        !.tp = tp,
                        !.train_df = IF st.entry = "train_model"
                                     THEN ts.train ELSE tp.train,
                        !.test_df = IF st.entry = "train_model"
                                    THEN ts.val ELSE <<>>]
    /\ StOnly

\* inference.py:230-238, 121-129, main.py:121-129: a fresh pipeline, fit on
\* train_df[feat_names] and applied to it.  The pipeline train_model made
\* at training.py:86 is another object and is left unfitted.
run_encode ==
    /\ st.stage = "split"
    /\ st' = [st EXCEPT !.stage = "encoded",
                        !.log = <<Event("fit", "inner", st.tp.train),
                                  Event("transform", "inner", st.tp.train)>>]
    /\ StOnly

\* inference.py:240, 132 fit_prophet and main.py:147 m.fit
run_fit ==
    /\ st.stage = "encoded"
    /\ \E r \in ProphetFit(st.dates, st.tp.train, st.const_y) :
           st' = [st EXCEPT !.stage = IF r.err = "none" THEN "fitted"
                                      ELSE "ended",
                            !.optimizer = r.optimizer,
                            !.fitted = r.err = "none",
                            !.err = r.err]
    /\ StOnly

\* What follows the fit.
\* train_model: open 'wb' and write (inference.py:242-243), then the
\* outer pipeline's transform of test_df (training.py:99-103).
\* retrain_prophet: predict and the metrics (inference.py:134-143).
\* _train_prophet: the metrics, and with a validation partition the
\* transform of it and the read of safe_regressors (main.py:150-195).
run_finish ==
    /\ st.stage = "fitted"
    /\ LET w == WriteBinary(File(<<>>), JsonType, <<"{", "}">>)
       IN  CASE st.entry = "train_model" ->
                  IF w.err # "none"
                  THEN st' = [st EXCEPT !.stage = "ended", !.err = w.err,
                                        !.artifact = "empty"]
                  ELSE st' = [st EXCEPT
                                !.stage = "ended",
                                !.artifact = "written",
                                !.err = Transform(st.log, "outer"),
                                !.log = IF Transform(st.log, "outer") = "none"
                                        THEN Append(st.log, Event("transform",
                                                    "outer", st.test_df))
                                        ELSE st.log]
             [] st.entry = "retrain_prophet" ->
                  st' = [st EXCEPT !.stage = "ended"]
             [] st.entry = "_train_prophet" ->
                  IF st.tp.has_val /\ Len(st.tp.val) > 0
                  THEN st' = [st EXCEPT
                                !.stage = "ended",
                                !.err = "UnboundLocalError",
                                !.log = Append(st.log, Event("transform",
                                               "inner", st.tp.val))]
                  ELSE st' = [st EXCEPT !.stage = "ended"]
    /\ StOnly

NextRun ==
    \/ run_split
    \/ run_encode
    \/ run_fit
    \/ run_finish

-----------------------------------------------------------------------------
(* Warm start.  m.params[pname] is an array with one row per posterior     *)
(* draw: one column for k, m and sigma_obs, one column per changepoint or  *)
(* regressor for delta and beta.  A mean is kept as the fraction num/den.  *)

MaxDraws == 2

VecLen == 2

ParamVals == {0, 1, 3}

ScalarParams == {"k", "m", "sigma_obs"}

VectorParams == {"delta", "beta"}

Point(v) == [num |-> v, den |-> 1]

RECURSIVE SumRows(_)
SumRows(a) == IF a = <<>> THEN 0 ELSE SumSeq(Head(a)) + SumRows(Tail(a))

Column(a, j) == [i \in 1..Len(a) |-> a[i][j]]

\* The first draw, whatever the number of draws.
FirstDraw(a) == Point(a[1][1])

\* np.mean(a): the mean of all the elements
NpMean(a) == [num |-> SumRows(a), den |-> Len(a) * Len(a[1])]

\* np.mean(a, axis=0): the mean of each column
NpMeanAxis0(a) ==
    [j \in 1..Len(a[1]) |-> [num |-> SumSeq(Column(a, j)), den |-> Len(a)]]

\* inference.py:20-33 warm_start_params
warm_start_params(m) ==
    [pname \in ScalarParams |->
        IF m.mcmc_samples = 0
        THEN Point(m.params[pname][1][1])
        ELSE NpMean(m.params[pname])]
    @@
    [pname \in VectorParams |->
        IF m.mcmc_samples = 0
        THEN [j \in 1..Len(m.params[pname][1]) |->
                 Point(m.params[pname][1][j])]
        ELSE NpMeanAxis0(m.params[pname])]

\* The parameters of a fit whose draws all agree.
SameDraws(d) ==
    [pname \in ScalarParams |-> [i \in 1..d |-> <<1>>]]
    @@
    [pname \in VectorParams |-> [i \in 1..d |-> [j \in 1..VecLen |-> j]]]

NoPrev == [supplied |-> FALSE, mcmc_samples |-> 0, params |-> SameDraws(1)]

DefaultInit == [warm |-> FALSE, res |-> <<>>]

\* The previous models: none, a point estimate (mcmc_samples = 0, one
\* row), or a sampled fit with d rows; one parameter's draws are drawn
\* freely.
InitWarm ==
    \E supplied \in BOOLEAN : \E d \in 1..MaxDraws : \E mcmc \in {0, d} :
    \E focus \in ScalarParams \cup VectorParams :
    \E a \in [1..(IF mcmc = 0 THEN 1 ELSE d) ->
                 [1..(IF focus \in ScalarParams THEN 1 ELSE VecLen) ->
                     ParamVals]] :
        st = [stage |-> "input",
              prev |-> IF supplied
                       THEN [supplied |-> TRUE, mcmc_samples |-> mcmc,
                             params |-> [SameDraws(Len(a))
                                            EXCEPT ![focus] = a]]
                       ELSE NoPrev,
              init |-> DefaultInit]

\* inference.py:65-68: m.fit(..., init=warm_start_params(prev_Model)) when
\* prev_Model is not None, m.fit(...) otherwise
fit_prophet_init ==
    /\ st.stage = "input"
    /\ st' = [st EXCEPT
                !.stage = "fit",
                !.init = IF st.prev.supplied
                         THEN [warm |-> TRUE,
                               res |-> warm_start_params(st.prev)]
                         ELSE DefaultInit]
    /\ StOnly

NextWarm == fit_prophet_init

NoBatch == [status |-> "none", user_data |-> <<>>, next |-> 1, results |-> {}]

NoSplit == [stage |-> "none", dates |-> <<>>, fnum |-> 0, df |-> <<>>,
            split |-> [train |-> <<>>, val |-> <<>>, has_val |-> FALSE],
            result |-> NoResult, answer |-> NoAnswer]

\* The artifact directory outlives the process: at start every path is
\* either absent or holds an artifact of an earlier deployment.
InitLife ==
    /\ batch = NoBatch
    /\ \E have \in SUBSET Paths :
           fs = [f \in Paths |-> IF f \in have THEN PriorFile(f[2]) ELSE Absent]
    /\ pc = [p \in Procs |-> "idle"]
    /\ op = [p \in Procs |-> "none"]
    /\ usr = [p \in Procs |-> 0]
    /\ dat = [p \in Procs |-> "none"]
    /\ err = [p \in Procs |-> "none"]
    /\ mdl = [p \in Procs |-> NoModel]
    /\ path = [p \in Procs |-> NoPath]
    /\ g_model = NoModel
    /\ g_mu_sigma = [set |-> FALSE, data |-> <<0, "none">>]

NoRun == [stage |-> "none"]

Init ==
    /\ InitLife
    /\ sp = NoSplit
    /\ st = NoRun

\* The file-based pipeline: train_model, retrain_model and infer_prophet
\* called from concurrent threads.
Next ==
    \E p \in Procs :
        \/ \E u \in Users, d \in Datasets : train_model_call(p, u, d)
        \/ train_prophet_enter(p)
        \/ train_prophet_fit(p)
        \/ train_prophet_open(p)
        \/ train_prophet_write(p)
        \/ \E u \in Users, d \in Datasets : retrain_model_call(p, u, d)
        \/ retrain_prophet_load(p)
        \/ retrain_prophet_fit(p)
        \/ \E u \in Users : infer_prophet(p, u)
        \/ Return(p)

Spec == Init /\ [][Next]_vars

\* The HTTP service: concurrent /train requests (the Flask development
\* server started at main.py:241 serves each request on its own thread).
\* It does not touch the artifact directory.
InitHttp ==
    /\ Init
    /\ \A f \in Paths : fs[f] = Absent

NextHttp ==
    \E p \in Procs :
        \/ \E u \in Users, d \in Datasets : train_endpoint_call(p, u, d)
        \/ main_train_prophet_enter(p)
        \/ main_train_prophet_fit(p)
        \/ Return(p)

SpecHttp == InitHttp /\ [][NextHttp]_vars

\* One thread running batch_train_models.
NextBatch ==
    \/ \E ud \in UserData : batch_train_models_call(BatchProc, ud)
    \/ batch_next(BatchProc)
    \/ train_prophet_enter(BatchProc)
    \/ train_prophet_fit(BatchProc)
    \/ train_prophet_open(BatchProc)
    \/ train_prophet_write(BatchProc)
    \/ batch_after_train(BatchProc)
    \/ Return(BatchProc)

SpecBatch == Init /\ [][NextBatch]_vars

\* The splitting functions applied to a drawn frame.  The artifact
\* directory and the threads play no part.
InitSplitSpec ==
    /\ InitLife
    /\ \A f \in Paths : fs[f] = Absent
    /\ InitSplit
    /\ st = NoRun

SpecSplit == InitSplitSpec /\ [][NextSplit]_vars

\* The standardization functions applied to a drawn income column.
InitStdSpec ==
    /\ InitLife
    /\ \A f \in Paths : fs[f] = Absent
    /\ sp = NoSplit
    /\ InitStd

SpecStd == InitStdSpec /\ [][NextStd]_vars

\* One POST /train request on a drawn payload, in a fresh process.
InitPayloadSpec ==
    /\ InitLife
    /\ \A f \in Paths : fs[f] = Absent
    /\ sp = NoSplit
    /\ InitPayload

SpecPayload == InitPayloadSpec /\ [][NextPayload]_vars

\* Fit and predict on a drawn frame of regressor columns.
InitColsSpec ==
    /\ InitLife
    /\ \A f \in Paths : fs[f] = Absent
    /\ sp = NoSplit
    /\ InitCols

SpecCols == InitColsSpec /\ [][NextCols]_vars

\* One run of train_model, retrain_prophet or _train_prophet on a drawn
\* frame.
InitRunSpec ==
    /\ InitLife
    /\ \A f \in Paths : fs[f] = Absent
    /\ sp = NoSplit
    /\ InitRun

SpecRun == InitRunSpec /\ [][NextRun]_vars

\* fit_prophet's choice of the optimizer initializer on a drawn previous
\* model.
InitWarmSpec ==
    /\ InitLife
    /\ \A f \in Paths : fs[f] = Absent
    /\ sp = NoSplit
    /\ InitWarm

SpecWarm == InitWarmSpec /\ [][NextWarm]_vars

-----------------------------------------------------------------------------
(* The claims *)

\* C1: in batch train a single user's failure does not abort the batch:
\* whenever batch_train_models has ended it has returned, with an entry
\* (a result or a failure record) for every user of the mapping, so every
\* user after a failing one was still trained.
C1_BatchSurvivesFailure ==
    batch.status \in {"returned", "raised"} =>
        /\ batch.status = "returned"
        /\ \A i \in 1..Len(batch.user_data) :
               \E r \in batch.results : r[1] = batch.user_data[i][1]

\* C2: at most one in-flight fit per user identifier: no two train/retrain
\* calls for the same user are inside their fit+persist section at once.
C2_OneInFlightFitPerUser ==
    \A p, q \in Procs :
        (p # q /\ InFlight(p) /\ InFlight(q)) => usr[p] # usr[q]

\* C3: model state is owned per user: a step of a request made for one
\* user never replaces the fitted model or the MuSigma held for another
\* user.
C3_ModelOwnedPerUser ==
    [][\A p \in Procs : \A u \in Users :
          (pc'[p] # pc[p] /\ usr[p] # u) =>
              /\ (g_model.data[1] = u => g_model' = g_model)
              /\ (g_mu_sigma.data[1] = u => g_mu_sigma' = g_mu_sigma)]_vars

\* C4: no partial overwrite: a persisted, loadable artifact is only ever
\* replaced by a complete new one; no step of a train or retrain, failing
\* or not, leaves the location without a loadable artifact.
C4_NoPartialOverwrite ==
    [][\A f \in Paths : IsArtifact(fs[f]) => IsArtifact(fs'[f])]_vars

\* C5: the artifact location is the same for every operation on a user:
\* whenever a train call has written user u's artifact, any call for u that
\* opens u's artifact opens the path that train wrote.
C5_OneLocationPerUser ==
    \A p, q \in Procs :
        (op[p] = "train" /\ path[p] # NoPath /\ path[q] # NoPath
         /\ usr[p] = usr[q])
            => path[q] = path[p]

\* C6: after a successful retrain of user u the persisted artifact of u is
\* the newly fitted model: a later load for u returns the retrained model.
C6_RetrainPersistsNewModel ==
    \A p \in Procs :
        (op[p] = "retrain" /\ pc[p] = "done") =>
            \E f \in {RetrainPath(usr[p]), TrainPath(usr[p])} :
                /\ OpenRead(fs, f).ok
                /\ model_to_json(OpenRead(fs, f).m) = model_to_json(mdl[p])

\* The step in which thread p opens and parses an artifact, and the path it
\* opens: retrain_prophet's load, or a call of infer_prophet.
LoadStep(p) ==
    \/ op[p] = "retrain" /\ pc[p] = "loaded" /\ pc'[p] # "loaded"
    \/ pc[p] = "idle" /\ op'[p] = "infer"

LoadPath(p) ==
    IF op[p] = "retrain" THEN RetrainPath(usr[p]) ELSE TrainPath(usr'[p])

Saved(p) ==
    /\ op[p] = "train" /\ pc[p] \in {"done", "failed"}
    /\ path[p] = TrainPath(usr[p])
    /\ \A q \in Procs \ {p} : ~(InFlight(q) /\ usr[q] = usr[p])

\* C8: save and load round-trip exactly: once the save of a fitted model
\* for user u has run, load for u succeeds and returns a model whose
\* serialized form equals the serialized form that was saved.
C8_SaveLoadRoundTrip ==
    \A p \in Procs :
        Saved(p) =>
            /\ OpenRead(fs, TrainPath(usr[p])).ok
            /\ model_to_json(OpenRead(fs, TrainPath(usr[p])).m)
                   = model_to_json(mdl[p])

\* A split has been computed from the sorted frame sp.df.
SplitDone ==
    sp.stage \in {"time_series_split", "train_prophet", "main_train_prophet",
                  "train_endpoint"}

Elems(q) == {q[i] : i \in 1..Len(q)}

\* C9: the chronological split is order-preserving and exhaustive: the two
\* partitions together have as many rows as the input, no row is in both,
\* the rows keep the order of the (date-sorted) frame, and every train
\* row's date is not later than every validation row's date.
C9_SplitChronological ==
    SplitDone =>
        /\ Len(sp.split.train) + Len(sp.split.val) = Len(sp.dates)
        /\ Elems(sp.split.train) \cap Elems(sp.split.val) = {}
        /\ sp.split.train \o sp.split.val = sp.df
        /\ Elems(sp.df) = 1..Len(sp.dates)
        /\ \A i \in Elems(sp.split.train) : \A j \in Elems(sp.split.val) :
               sp.dates[i] <= sp.dates[j]

\* C9 witness: a split of a frame with ties and distinct dates into two
\* non-empty partitions, given unsorted.
C9_Witness ==
    /\ sp.stage \in {"time_series_split", "train_prophet"}
    /\ Len(sp.split.train) >= 2 /\ Len(sp.split.val) >= 1
    /\ \E i \in 1..(Len(sp.dates) - 1) : sp.dates[i] > sp.dates[i + 1]

\* C10: when the train fraction equals 1 the validation partition is empty
\* and the result carries no validation metrics: the metrics have no val_*
\* key and the answer's validation member is null, never zeros.
C10_NoValidationAtFractionOne ==
    (sp.stage \in {"main_train_prophet", "train_endpoint"}
     /\ sp.fnum = FracDen) =>
        /\ sp.split.val = <<>>
        /\ DOMAIN sp.result.metrics \cap ValMetricKeys = {}
        /\ sp.stage = "train_endpoint" => sp.answer.validation = NoValidation

\* C10 witness: /train answered 200 with training metrics and a null
\* validation member.
C10_Witness ==
    /\ sp.stage = "train_endpoint"
    /\ sp.fnum = FracDen
    /\ sp.answer.status = 200
    /\ sp.answer.train = "computed"
    /\ sp.answer.validation.null

\* C11: sigma is never used as a divisor when it is zero: wherever the
\* standardized y has been computed (extract_features, train_prophet,
\* retrain_prophet, _train_prophet), the sigma it was divided by is not
\* zero and every y is a finite number.
C11_SigmaNeverZeroDivisor ==
    st.y_from # "none" =>
        /\ ~IsZero(st.y_pair.sigma)
        /\ \A i \in 1..Len(st.y) : IsFinite(st.y[i])

\* C12: standardization round-trips: when the training function has
\* standardized an income column with its (mu, sigma) and the inverse is
\* applied with the same pair, every row comes back within the rounding
\* tolerance of the inverse (half of ten), and exactly when the income is
\* a multiple of ten, as in [1000, 1200, 800].
C12_StandardizeRoundTrips ==
    (st.stage = "inverted" /\ st.y_from = "train_prophet") =>
        \A i \in 1..Len(st.incomes) : \A r \in st.inv[i] :
            /\ ~r.nan
            /\ 2 * (r.val - st.incomes[i]) <= Tens
            /\ 2 * (st.incomes[i] - r.val) <= Tens
            /\ (st.incomes[i] % Tens = 0 => r.val = st.incomes[i])

C12_Witness ==
    /\ st.stage = "inverted"
    /\ st.y_from = "train_prophet"
    /\ st.incomes = <<1000, 1200, 800>>
    /\ st.inv = <<{Number(1000)}, {Number(1200)}, {Number(800)}>>

\* C13: the (mu, sigma) used to invert predictions is the pair that
\* produced the y the model was fit on: the pair the training function
\* keeps, and the pair read back for inversion from the stored statistics,
\* both equal the pair y was computed with.
C13_InversePairIsTrainingPair ==
    /\ st.stage \in {"standardized", "metrics", "inverted", "stats"} =>
           SamePair(st.mu_sigma, st.y_pair)
    /\ st.stage = "stats" => SamePair(st.stats, st.y_pair)

\* C14: the regressor names and their order at predict time equal those
\* at fit time: a predict call that returns a forecast was handed exactly
\* the fitted model's regressors, in their order; a reordered, reduced or
\* extended set fails.
C14_PredictSchemaEqualsFit ==
    (st.stage = "predicted" /\ st.err = "none") => st.regs = st.m.regressors

\* C15: fitting on a training partition with fewer than 2 distinct dates
\* fails before the optimizer is invoked, for every input and every train
\* fraction, and no artifact is written.
C15_FewDatesFailBeforeOptimizer ==
    (/\ st.stage \in {"fitted", "ended"}
     /\ Cardinality(DistinctDates(st.dates, st.tp.train)) < 2) =>
        /\ st.stage = "ended"
        /\ st.err = "ValueError"
        /\ ~st.optimizer
        /\ st.artifact = "untouched"

\* C16: R2 on a constant-target slice is reported as undefined: a run on
\* two or more rows of one constant income does not fail and does not
\* report a number for its training R2.
C16_ConstantTargetR2Undefined ==
    (/\ st.stage \in {"metrics", "failed"}
     /\ st.y_from # "none"
     /\ Len(st.incomes) >= 2
     /\ \A i, j \in 1..Len(st.incomes) : st.incomes[i] = st.incomes[j]) =>
        (st.stage = "metrics" /\ st.r2 = "undefined")

\* C17: a training request whose records lack a required field (Date,
\* Category, Daily_Income, Daily_Expenses) fails as a whole with the
\* validation error that lists the missing field names; no model is fit
\* and the model state (fitted model and MuSigma) is unchanged.
C17_MissingFieldRejected ==
    (/\ st.stage = "answered"
     /\ \E i \in 1..Len(st.records) : ~(required_cols \subseteq st.records[i])) =>
        /\ st.err = "ValueError: Missing required columns"
        /\ st.listed =
               UNION {required_cols \ st.records[i] : i \in 1..Len(st.records)}
        /\ g_model = NoModel
        /\ ~g_mu_sigma.set

\* C18: the feature encoding is fit exactly once per training run, on
\* rows of the run's training partition only, and every transform of the
\* run is applied with that same fitted encoding: never with an encoding
\* that was not fit or with another instance.
C18_EncodingFitOnceOnTrain ==
    st.stage \in {"encoded", "fitted", "ended"} =>
        /\ Cardinality({k \in 1..Len(st.log) : st.log[k].op = "fit"}) = 1
        /\ \A k \in 1..Len(st.log) :
               st.log[k].op = "fit" =>
                   \A i \in 1..Len(st.log[k].rows) :
                       \E j \in 1..Len(st.train_df) :
                           st.train_df[j] = st.log[k].rows[i]
        /\ \A k \in 1..Len(st.log) :
               st.log[k].op = "transform" =>
                   \E j \in 1..(k - 1) :
                       st.log[j].op = "fit" /\ st.log[j].pipe = st.log[k].pipe

\* ceil(num/den) for den > 0
Ceil(num, den) == -((-num) \div den)

\* C19: for a train fraction f with 0 < f <= 1 and n rows, the train
\* partition is exactly the first ceil(n*f) rows and the validation
\* partition the remaining n - ceil(n*f) rows (for time_series_split the
\* train fraction is 1 - test_size).
C19_TrainIsFirstCeilRows ==
    LET f == IF sp.stage = "time_series_split"
             THEN FracDen - sp.fnum ELSE sp.fnum
        k == Ceil(Len(sp.df) * f, FracDen)
    IN  (/\ sp.stage \in {"time_series_split", "train_prophet",
                          "main_train_prophet"}
         /\ f > 0) =>
            /\ sp.split.train = SubSeq(sp.df, 1, k)
            /\ sp.split.val = SubSeq(sp.df, k + 1, Len(sp.df))

\* C20: ds, y, cap and floor are never treated as regressors: neither the
\* regressors of a fitted model nor the regressor columns handed to the
\* model at a predict call (train, evaluate, retrain) contain any of them.
C20_ReservedNeverRegressors ==
    /\ st.stage \in {"fitted", "predicted"} =>
           NameSet(st.m.regressors) \cap ReservedNames = {}
    /\ st.stage = "predicted" => NameSet(st.regs) \cap ReservedNames = {}

\* C21: warm-start extraction returns exactly the five continuity
\* parameters (k, m, sigma_obs as scalars, delta and beta as vectors), each
\* equal to the mean over the posterior draws of the previous fit, which
\* for a single point estimate is that estimate; fit passes this set as the
\* optimizer initializer if and only if a previous model is supplied and
\* uses the default initialization otherwise.
C21_WarmStartIsDrawMean ==
    st.stage = "fit" =>
        /\ st.init.warm <=> st.prev.supplied
        /\ ~st.init.warm => st.init = DefaultInit
        /\ st.init.warm =>
            LET a(p) == st.prev.params[p]
                res == st.init.res
            IN  /\ DOMAIN res = {"k", "m", "sigma_obs", "delta", "beta"}
                /\ \A p \in {"k", "m", "sigma_obs"} :
                       /\ res[p].num * Len(a(p)) =
                              SumSeq(Column(a(p), 1)) * res[p].den
                       /\ Len(a(p)) = 1 => res[p] = Point(a(p)[1][1])
                /\ \A p \in {"delta", "beta"} :
                       /\ Len(res[p]) = Len(a(p)[1])
                       /\ \A j \in 1..Len(res[p]) :
                              /\ res[p][j].num * Len(a(p)) =
                                     SumSeq(Column(a(p), j)) * res[p][j].den
                              /\ Len(a(p)) = 1 =>
                                     res[p][j] = Point(a(p)[1][j])

C21_Witness ==
    /\ st.stage = "fit"
    /\ st.prev.supplied
    /\ st.prev.mcmc_samples = 2
    /\ st.prev.params["k"] = <<(<<0>>), (<<3>>)>>
    /\ st.init.warm
    /\ st.init.res["k"] = [num |-> 3, den |-> 2]
    /\ st.init.res["delta"] = <<[num |-> 2, den |-> 2], [num |-> 4, den |-> 2]>>

\* C22: in a train run the held-out test tail is disjoint from the rows
\* the model is fit on: once train_model's model is fit, no row of its test
\* partition is in the partition that was passed to the fit.
C22_TestTailDisjointFromFit ==
    (st.stage \in {"fitted", "ended"} /\ st.entry = "train_model"
     /\ st.fitted) =>
        \A i \in 1..Len(st.test_df) : \A j \in 1..Len(st.tp.train) :
            st.test_df[i] # st.tp.train[j]

\* C23: whenever the train fraction leaves a non-empty validation
\* partition (and the training partition can be fit), _train_prophet
\* completes and its metrics contain val_mae, val_rmse and val_r2 in
\* addition to the training metrics.
C23_ValidationMetricsReturned ==
    (/\ sp.stage = "main_train_prophet"
     /\ Len(sp.split.train) >= 2
     /\ Len(sp.split.val) > 0) =>
        /\ sp.result.err = "none"
        /\ (TrainMetricKeys \cup ValMetricKeys) \subseteq DOMAIN sp.result.metrics

====
